---------------------------- MODULE Spec2Model ----------------------------
(***************************************************************************)
(* Model of thirty's mesh graph (src/thirty/mesh.py) and of the            *)
(* connect_lines index helper (src/thirty/tools.py).                       *)
(*                                                                         *)
(* Representation of panda3d values:                                       *)
(*   Vec3 position      <<x, y, z>> of integers                            *)
(*   raw face normal    <<x, y, z>> of integers (cross product)            *)
(*   unit vector        the shortest integer vector with the same          *)
(*                      direction (components divided by their gcd); the   *)
(*                      zero vector normalizes to itself.  Dot products    *)
(*                      of unit vectors are compared with cos(edge_angle)  *)
(*                      exactly, see DotLess.                              *)
(*   Vec4 color         <<r, g, b, a>>, Vec2 texcoord <<u, v>>             *)
(*   dict               sequence of entries in insertion order             *)
(***************************************************************************)
EXTENDS Integers, Sequences, FiniteSets, TLC

(***************************************************************************)
(* Bounds of the model and input sets.                                     *)
(***************************************************************************)
MaxV == 4
MaxT == 2
MaxRing == 3
MaxCache == 2

P0 == <<0, 0, 0>>
P1 == <<1, 0, 0>>
P2 == <<0, 1, 0>>
P3 == <<0, 0, 1>>

ColorA == <<3, 3, 3, 3>>
ColorB == <<0, 0, 3, 3>>
TexA == <<0, 0>>
TexB == <<1, 0>>

\* (position, color, texcoord) triples the callers pass to add_vertex
VertexInputs ==
    { <<P0, ColorA, TexA>>, <<P0, ColorB, TexA>>, <<P0, ColorA, TexB>>,
      <<P1, ColorA, TexA>>, <<P2, ColorA, TexA>> }

\* (va, vb, vc) triples the callers pass to add_triangle
TriangleInputs == { <<0, 1, 2>>, <<0, 2, 1>>, <<0, 0, 1>>, <<1, 2, 3>> }

EdgeAngles == {80, 100}

(***************************************************************************)
(* Vec3 arithmetic.                                                        *)
(***************************************************************************)
Abs(x) == IF x < 0 THEN -x ELSE x

RECURSIVE Gcd(_, _)
Gcd(a, b) == IF b = 0 THEN a ELSE Gcd(b, a % b)

VecSub(a, b) == <<a[1] - b[1], a[2] - b[2], a[3] - b[3]>>

VecAdd(a, b) == <<a[1] + b[1], a[2] + b[2], a[3] + b[3]>>

VecDot(a, b) == a[1] * b[1] + a[2] * b[2] + a[3] * b[3]

ZeroVec == <<0, 0, 0>>

\* Vec3.normalized(): the unit vector of v, the zero vector for v = 0
Normalized(v) ==
    LET g == Gcd(Gcd(Abs(v[1]), Abs(v[2])), Abs(v[3]))
    IN  IF g = 0 THEN ZeroVec ELSE <<v[1] \div g, v[2] \div g, v[3] \div g>>

tri_face_norm(p1, p2, p3, normalized) ==
    LET u == VecSub(p2, p1)
        v == VecSub(p3, p1)
        n == << u[2] * v[3] - u[3] * v[2],
                u[3] * v[1] - u[1] * v[3],
                u[1] * v[2] - u[2] * v[1] >>
    IN  IF normalized THEN Normalized(n) ELSE n

\* split_cos with radians() forgotten: cos of edge_angle taken as radians
split_cos_NoRadians(edge_angle) ==
    CASE edge_angle = 0   -> [pos |-> TRUE,  num |-> 1, den |-> 1]
      [] edge_angle = 50  -> [pos |-> TRUE,  num |-> 9311397, den |-> 10000000]
      [] edge_angle = 80  -> [pos |-> FALSE, num |-> 121877, den |-> 10000000]
      [] edge_angle = 100 -> [pos |-> TRUE,  num |-> 7435812, den |-> 10000000]
      [] edge_angle = 180 -> [pos |-> FALSE, num |-> 3581690, den |-> 10000000]

\* cos(radians(edge_angle)) as sign and square: cos^2 = num / den.
\* The squares are rounded to 7 digits; no dot product of two unit vectors
\* that the model can build lies between the rounded and the exact value.
split_cos(edge_angle) ==
    CASE edge_angle = 0   -> [pos |-> TRUE,  num |-> 1, den |-> 1]
      [] edge_angle = 50  -> [pos |-> TRUE,  num |-> 4131759, den |-> 10000000]
      [] edge_angle = 80  -> [pos |-> TRUE,  num |-> 301537, den |-> 10000000]
      [] edge_angle = 100 -> [pos |-> FALSE, num |-> 301537, den |-> 10000000]
      [] edge_angle = 180 -> [pos |-> FALSE, num |-> 1, den |-> 1]

\* a.dot(b) < c for the unit vectors a and b
DotLess(a, b, c) ==
    LET d == VecDot(a, b)
        m == VecDot(a, a) * VecDot(b, b)
    IN  IF c.pos
        THEN d <= 0 \/ d * d * c.den < c.num * m
        ELSE d < 0 /\ d * d * c.den > c.num * m

(***************************************************************************)
(* Insertion-ordered dicts: sequences of [k, v].                           *)
(***************************************************************************)
DictHas(d, key) == \E i \in 1..Len(d) : d[i].k = key

DictGet(d, key) == d[CHOOSE i \in 1..Len(d) : d[i].k = key].v

DictPut(d, key, val) ==
    IF DictHas(d, key)
    THEN [i \in 1..Len(d) |-> IF d[i].k = key THEN [k |-> key, v |-> val] ELSE d[i]]
    ELSE Append(d, [k |-> key, v |-> val])

(***************************************************************************)
(* State of one Mesh.                                                      *)
(***************************************************************************)
VARIABLES
    points,      \* Mesh._points: dict position -> _Point._combinations
    vertices,    \* Mesh._vertices: id -> _Vertex
    triangles,   \* Mesh._triangles: id -> _Triangle
    v_id,        \* Mesh._v_id
    t_id,        \* Mesh._t_id
    last,        \* the last call: its name, arguments and result
    out,         \* rows and primitives of the node the last export returned
    cache,       \* tools._connect_lines_cache
    threads,     \* the threads calling connect_lines: where each one is
    returned     \* what add_vertex has returned so far: [args, ret]

vars ==
    <<points, vertices, triangles, v_id, t_id, last, out, cache, threads,
      returned>>

meshVars == <<points, vertices, triangles, v_id, t_id>>

PlaceholderNormal == <<-2, -2, -2>>

NoOut == [rows |-> <<>>, prims |-> <<>>]

\* _Vertex.__init__
Vertex(point, color, tex_coord) ==
    [point |-> point, color |-> color, tex_coord |-> tex_coord,
     triangles |-> <<>>, normal |-> PlaceholderNormal]

\* Mesh.insert_unique_vertex applied to the vertex table
InsertVertex(vs, id, point, color, tex_coord) ==
    [i \in (DOMAIN vs) \cup {id} |->
        IF i = id THEN Vertex(point, color, tex_coord) ELSE vs[i]]

\* _Vertex.add_to_triangle
add_to_triangle(vs, v, t) ==
    [vs EXCEPT ![v].triangles = Append(@, t)]

\* index of the first occurrence of x in the list s, 0 when absent
IndexOf(s, x) ==
    IF \E i \in 1..Len(s) : s[i] = x
    THEN CHOOSE i \in 1..Len(s) : s[i] = x /\ \A j \in 1..(i - 1) : s[j] # x
    ELSE 0

RemoveAt(s, i) == [j \in 1..(Len(s) - 1) |-> IF j < i THEN s[j] ELSE s[j + 1]]

(***************************************************************************)
(* Mesh.add_vertex / _Point.add_vertex / Mesh.insert_unique_vertex         *)
(***************************************************************************)
\* index in Mesh._points of the _Point at `point`, 0 when there is none
PointIndex(ps, point) ==
    IF \E i \in 1..Len(ps) : ps[i].point = point
    THEN CHOOSE i \in 1..Len(ps) : ps[i].point = point
    ELSE 0

\* _Point.add_vertex with the texcoord left out of the key
PointAddVertexColorKey(ps, i, color, tex_coord, vs, vid) ==
    IF \E j \in 1..Len(ps[i].combinations) : ps[i].combinations[j].k[1] = color
    THEN [points |-> ps, vertices |-> vs, v_id |-> vid,
          ret |-> ps[i].combinations[
                      CHOOSE j \in 1..Len(ps[i].combinations) :
                          ps[i].combinations[j].k[1] = color].v]
    ELSE [points |-> [ps EXCEPT ![i].combinations =
                                     DictPut(@, <<color, tex_coord>>, vid)],
          vertices |-> InsertVertex(vs, vid, ps[i].point, color, tex_coord),
          v_id |-> vid + 1,
          ret |-> vid]

\* _Point.add_vertex: the id registered for (color, tex_coord), or a new one.
\* Returns [points, vertices, v_id, ret].
PointAddVertex(ps, i, color, tex_coord, vs, vid) ==
    LET c_id == <<color, tex_coord>>
    IN  IF DictHas(ps[i].combinations, c_id)
        THEN [points |-> ps, vertices |-> vs, v_id |-> vid,
              ret |-> DictGet(ps[i].combinations, c_id)]
        ELSE [points |-> [ps EXCEPT ![i].combinations = DictPut(@, c_id, vid)],
              vertices |-> InsertVertex(vs, vid, ps[i].point, color, tex_coord),
              v_id |-> vid + 1,
              ret |-> vid]

MeshAddVertex(ps, point, color, tex_coord, vs, vid) ==
    LET ps1 == IF PointIndex(ps, point) = 0
               THEN Append(ps, [point |-> point, combinations |-> <<>>])
               ELSE ps
    IN  PointAddVertex(ps1, PointIndex(ps1, point), color, tex_coord, vs, vid)

AddVertex(point, color, tex_coord) ==
    \E r \in {MeshAddVertex(points, point, color, tex_coord, vertices, v_id)} :
        /\ points' = r.points
        /\ vertices' = r.vertices
        /\ v_id' = r.v_id
        /\ last' = [op |-> "add_vertex", args |-> <<point, color, tex_coord>>,
                    ret |-> r.ret, err |-> "none"]
        /\ out' = NoOut
        /\ returned' = returned \cup
                           {[args |-> <<point, color, tex_coord>>, ret |-> r.ret]}
        /\ UNCHANGED <<triangles, t_id, cache, threads>>

\* insert_unique_vertex that also registers the new vertex with its point
InsertUniqueVertexRegistered(point, color, tex_coord) ==
    \E r \in {MeshAddVertex(points, point, color, tex_coord, vertices, v_id)} :
        /\ IF r.ret = v_id
           THEN points' = r.points /\ vertices' = r.vertices
           ELSE /\ points' = points
                /\ vertices' = InsertVertex(vertices, v_id, point, color, tex_coord)
        /\ v_id' = v_id + 1
        /\ last' = [op |-> "insert_unique_vertex",
                    args |-> <<point, color, tex_coord>>,
                    ret |-> v_id, err |-> "none"]
        /\ out' = NoOut
        /\ UNCHANGED <<triangles, t_id, cache, threads, returned>>

InsertUniqueVertex(point, color, tex_coord) ==
    /\ vertices' = InsertVertex(vertices, v_id, point, color, tex_coord)
    /\ v_id' = v_id + 1
    /\ last' = [op |-> "insert_unique_vertex", args |-> <<point, color, tex_coord>>,
                ret |-> v_id, err |-> "none"]
    /\ out' = NoOut
    /\ UNCHANGED <<points, triangles, t_id, cache, threads, returned>>

(***************************************************************************)
(* Mesh.add_triangle / _Triangle.__init__                                  *)
(***************************************************************************)
\* _Triangle.__init__: the new triangle and the vertex table after the three
\* add_to_triangle calls
NewTriangle(vs, t, va, vb, vc) ==
    LET mag == tri_face_norm(vs[va].point, vs[vb].point, vs[vc].point, FALSE)
    IN  [tri |-> [va |-> va, vb |-> vb, vc |-> vc,
                  normal_mag |-> mag, normal |-> Normalized(mag)],
         vertices |-> add_to_triangle(
                          add_to_triangle(add_to_triangle(vs, va, t), vb, t), vc, t)]

\* what is recorded of the arguments of add_triangle: which of the three ids
\* name an existing vertex
ValidIds(va, vb, vc) ==
    <<va \in DOMAIN vertices, vb \in DOMAIN vertices, vc \in DOMAIN vertices>>

\* add_triangle registering the triangle with each vertex as soon as its
\* id is resolved, so that a later missing id leaves the earlier ones changed
AddTriangleEager(va, vb, vc) ==
    IF {va, vb, vc} \subseteq DOMAIN vertices
    THEN /\ \E r \in {NewTriangle(vertices, t_id, va, vb, vc)} :
                /\ triangles' = [i \in (DOMAIN triangles) \cup {t_id} |->
                                    IF i = t_id THEN r.tri ELSE triangles[i]]
                /\ vertices' = r.vertices
         /\ t_id' = t_id + 1
         /\ last' = [op |-> "add_triangle", args |-> ValidIds(va, vb, vc),
                     ret |-> t_id, err |-> "none"]
         /\ out' = NoOut
         /\ UNCHANGED <<points, v_id, cache, threads, returned>>
    ELSE /\ vertices' =
                IF va \notin DOMAIN vertices THEN vertices
                ELSE IF vb \notin DOMAIN vertices
                THEN add_to_triangle(vertices, va, t_id)
                ELSE add_to_triangle(add_to_triangle(vertices, va, t_id), vb, t_id)
         /\ last' = [op |-> "add_triangle", args |-> ValidIds(va, vb, vc),
                     ret |-> -1, err |-> "KeyError"]
         /\ out' = NoOut
         /\ UNCHANGED <<points, triangles, v_id, t_id, cache, threads, returned>>

\* Mesh.add_triangle: the three self._vertices[...] lookups are evaluated
\* before _Triangle is constructed; a missing id raises KeyError there.
AddTriangle(va, vb, vc) ==
    IF {va, vb, vc} \subseteq DOMAIN vertices
    THEN /\ \E r \in {NewTriangle(vertices, t_id, va, vb, vc)} :
                /\ triangles' = [i \in (DOMAIN triangles) \cup {t_id} |->
                                    IF i = t_id THEN r.tri ELSE triangles[i]]
                /\ vertices' = r.vertices
         /\ t_id' = t_id + 1
         /\ last' = [op |-> "add_triangle", args |-> ValidIds(va, vb, vc),
                     ret |-> t_id, err |-> "none"]
         /\ out' = NoOut
         /\ UNCHANGED <<points, v_id, cache, threads, returned>>
    ELSE /\ last' = [op |-> "add_triangle", args |-> ValidIds(va, vb, vc),
                     ret |-> -1, err |-> "KeyError"]
         /\ out' = NoOut
         /\ UNCHANGED <<points, vertices, triangles, v_id, t_id, cache, threads, returned>>

(***************************************************************************)
(* _Triangle.replace_vertex / _Vertex.remove_from_triangle                 *)
(* A mesh value m is [vertices, triangles, v_id, err]; once err is set     *)
(* the exception propagates and the remaining steps of the call are not    *)
(* run.                                                                    *)
(***************************************************************************)
\* replace_vertex rewriting every slot that holds old
replace_vertexAllSlots(m, t, old, new) ==
    LET tri == m.triangles[t]
        tri1 == [va |-> IF tri.va = old THEN new ELSE tri.va,
                 vb |-> IF tri.vb = old THEN new ELSE tri.vb,
                 vc |-> IF tri.vc = old THEN new ELSE tri.vc,
                 normal |-> tri.normal, normal_mag |-> tri.normal_mag]
    IN  IF m.err # "none" THEN m
        ELSE IF old \notin {tri.va, tri.vb, tri.vc}
        THEN [m EXCEPT !.err = "ValueError"]
        ELSE [m EXCEPT !.triangles[t] = tri1,
                       !.vertices = add_to_triangle(@, new, t)]

replace_vertex(m, t, old, new) ==
    LET tri == m.triangles[t]
        tri1 == IF tri.va = old THEN [tri EXCEPT !.va = new]
                ELSE IF tri.vb = old THEN [tri EXCEPT !.vb = new]
                ELSE IF tri.vc = old THEN [tri EXCEPT !.vc = new]
                ELSE tri
    IN  IF m.err # "none" THEN m
        ELSE IF old \notin {tri.va, tri.vb, tri.vc}
        THEN [m EXCEPT !.err = "ValueError"]
        ELSE [m EXCEPT !.triangles[t] = tri1,
                       !.vertices = add_to_triangle(@, new, t)]

remove_from_triangle(m, v, t) ==
    LET i == IndexOf(m.vertices[v].triangles, t)
    IN  IF m.err # "none" THEN m
        ELSE IF i = 0
        THEN [m EXCEPT !.err = "ValueError"]
        ELSE [m EXCEPT !.vertices[v].triangles = RemoveAt(@, i)]

(***************************************************************************)
(* Mesh._compute_normal_groups                                             *)
(***************************************************************************)
\* the inner loop comparing t with the first member of the group only
GroupRejectsFirst(ts, g, j, t, c) ==
    DotLess(ts[t].normal, ts[g[1]].normal, c)

\* inner loop: some member of g, from position j on, rejects t
RECURSIVE GroupRejects(_, _, _, _, _)
GroupRejects(ts, g, j, t, c) ==
    IF j > Len(g) THEN FALSE
    ELSE IF DotLess(ts[t].normal, ts[g[j]].normal, c) THEN TRUE
    ELSE GroupRejects(ts, g, j + 1, t, c)

\* the group loop with g_id never set: every triangle opens a new group
FindGroupNever(ts, groups, i, t, c) == 0

\* loop over the groups from index i on: the index of the first group whose
\* members all accept t, 0 for g_id = -1
RECURSIVE FindGroup(_, _, _, _, _)
FindGroup(ts, groups, i, t, c) ==
    IF i > Len(groups) THEN 0
    ELSE IF ~GroupRejects(ts, groups[i], 1, t, c) THEN i
    ELSE FindGroup(ts, groups, i + 1, t, c)

RECURSIVE NormalGroupsFrom(_, _, _, _, _)
NormalGroupsFrom(ts, tris, i, groups, c) ==
    IF i > Len(tris) THEN groups
    ELSE LET t == tris[i].k
             g_id == FindGroup(ts, groups, 1, t, c)
         IN  NormalGroupsFrom(ts, tris, i + 1,
                 IF g_id # 0
                 THEN [groups EXCEPT ![g_id] = Append(@, t)]
                 ELSE Append(groups, <<t>>),
                 c)

\* triangles: the dict tris (triangle -> vertex); result: list of lists of
\* triangle ids
compute_normal_groups(ts, tris, c) == NormalGroupsFrom(ts, tris, 1, <<>>, c)

(***************************************************************************)
(* Mesh._compute_vertex_duplication                                        *)
(***************************************************************************)
RECURSIVE SumNormalMag(_, _, _)
SumNormalMag(ts, g, j) ==
    IF j > Len(g) THEN ZeroVec
    ELSE VecAdd(ts[g[j]].normal_mag, SumNormalMag(ts, g, j + 1))

GroupNormal(ts, g) == Normalized(SumNormalMag(ts, g, 1))

\* v2n[v][n].append(t), creating the entries that are missing
V2nAdd(v2n, v, n, t) ==
    IF DictHas(v2n, v)
    THEN LET inner == DictGet(v2n, v)
         IN  IF DictHas(inner, n)
             THEN DictPut(v2n, v, DictPut(inner, n, Append(DictGet(inner, n), t)))
             ELSE DictPut(v2n, v, DictPut(inner, n, <<t>>))
    ELSE DictPut(v2n, v, <<[k |-> n, v |-> <<t>>]>>)

RECURSIVE V2nGroup(_, _, _, _, _)
V2nGroup(v2n, tris, g, j, n) ==
    IF j > Len(g) THEN v2n
    ELSE V2nGroup(V2nAdd(v2n, DictGet(tris, g[j]), n, g[j]), tris, g, j + 1, n)

RECURSIVE V2nFrom(_, _, _, _, _)
V2nFrom(ts, tris, groups, i, v2n) ==
    IF i > Len(groups) THEN v2n
    ELSE V2nFrom(ts, tris, groups, i + 1,
                 V2nGroup(v2n, tris, groups[i], 1, GroupNormal(ts, groups[i])))

\* result: dict vertex -> dict normal -> list of triangles
compute_vertex_duplication(ts, tris, groups) == V2nFrom(ts, tris, groups, 1, <<>>)

(***************************************************************************)
(* Mesh._compute_smooth_normals                                            *)
(***************************************************************************)
\* the (triangle, vertex) pairs in the order the dict comprehension visits
\* them: for v_id in p.vertices, for t in self._vertices[v_id].triangles
RECURSIVE Incidences(_, _, _)
Incidences(vs, combinations, i) ==
    IF i > Len(combinations) THEN <<>>
    ELSE LET v == combinations[i].v
         IN  [j \in 1..Len(vs[v].triangles) |-> [k |-> vs[v].triangles[j], v |-> v]]
             \o Incidences(vs, combinations, i + 1)

RECURSIVE DictFromPairs(_, _, _)
DictFromPairs(pairs, i, d) ==
    IF i > Len(pairs) THEN d
    ELSE DictFromPairs(pairs, i + 1, DictPut(d, pairs[i].k, pairs[i].v))

\* tris built over all triangles of the mesh in creation order, each with
\* the last registered vertex of the point it references
RECURSIVE TrisInCreationOrder(_, _, _, _)
TrisInCreationOrder(vs, ts, p, t) ==
    IF t \notin DOMAIN ts THEN <<>>
    ELSE LET at == {c \in 1..Len(p.combinations) :
                       p.combinations[c].v \in {ts[t].va, ts[t].vb, ts[t].vc}}
         IN  (IF at = {} THEN <<>>
              ELSE <<[k |-> t,
                      v |-> p.combinations[CHOOSE c \in at :
                                              \A d \in at : d <= c].v]>>)
             \o TrisInCreationOrder(vs, ts, p, t + 1)

TrisAtPointCreationOrder(vs, p) ==
    TrisInCreationOrder(vs, triangles, p, 0)

\* tris = {t: vertex ...}: a triangle met again keeps its place and takes
\* the later vertex
TrisAtPoint(vs, p) == DictFromPairs(Incidences(vs, p.combinations, 1), 1, <<>>)

\* for t in v2n[v][n]: t.replace_vertex(v, new); v.remove_from_triangle(t)
RECURSIVE MoveTriangles(_, _, _, _, _)
MoveTriangles(m, tlist, j, v, new) ==
    IF j > Len(tlist) THEN m
    ELSE MoveTriangles(
             remove_from_triangle(replace_vertex(m, tlist[j], v, new), v, tlist[j]),
             tlist, j + 1, v, new)

\* one further normal n of vertex v: a new vertex takes n and its triangles
SplitVertex(m, v, n, tlist) ==
    LET new_id == m.v_id
        src == m.vertices[v]
        m1 == [m EXCEPT
                 !.vertices = [InsertVertex(@, new_id, src.point, src.color,
                                            src.tex_coord)
                               EXCEPT ![new_id].normal = n],
                 !.v_id = new_id + 1]
    IN  IF m.err # "none" THEN m ELSE MoveTriangles(m1, tlist, 1, v, new_id)

RECURSIVE SplitFrom(_, _, _, _)
SplitFrom(m, v, ns, k) ==
    IF k > Len(ns) THEN m
    ELSE SplitFrom(SplitVertex(m, v, ns[k].k, ns[k].v), v, ns, k + 1)

\* body of `for v in v2n`
AssignNormals(m, v, ns) ==
    IF m.err # "none" THEN m
    ELSE IF Len(ns) < 2
    THEN [m EXCEPT !.vertices[v].normal = ns[1].k]
    ELSE SplitFrom([m EXCEPT !.vertices[v].normal = ns[1].k], v, ns, 2)

RECURSIVE AssignFrom(_, _, _)
AssignFrom(m, v2n, i) ==
    IF i > Len(v2n) THEN m
    ELSE AssignFrom(AssignNormals(m, v2n[i].k, v2n[i].v), v2n, i + 1)

\* body of `for p in self._points.values()`
SmoothPoint(m, p, c) ==
    LET tris == TrisAtPoint(m.vertices, p)
        groups == compute_normal_groups(m.triangles, tris, c)
        v2n == compute_vertex_duplication(m.triangles, tris, groups)
    IN  IF m.err # "none" THEN m ELSE AssignFrom(m, v2n, 1)

RECURSIVE SmoothFrom(_, _, _, _)
SmoothFrom(m, ps, i, c) ==
    IF i > Len(ps) THEN m
    ELSE SmoothFrom(SmoothPoint(m, ps[i], c), ps, i + 1, c)

compute_smooth_normals(ps, vs, ts, vid, edge_angle) ==
    SmoothFrom([vertices |-> vs, triangles |-> ts, v_id |-> vid, err |-> "none"],
               ps, 1, split_cos(edge_angle))

(***************************************************************************)
(* VertexArray and Mesh.export                                             *)
(***************************************************************************)
\* VertexArray.add_row: the row it appends; its return value is the number of
\* rows written before
Row(point, normal, color, tex) ==
    [point |-> point, normal |-> normal, color |-> color, tex |-> tex]

NormalColor(n) == <<n[1], n[2], n[3], 1>>

\* c = Vec4(0); c += v.color for the three corners; c /= 3
AverageColor(a, b, c) ==
    [i \in 1..4 |-> (a[i] + b[i] + c[i]) \div 3]

NoColor == <<>>

Corners(tri) == <<tri.va, tri.vb, tri.vc>>

\* flat shading writing the vertex normals instead of the face normal
FlatTriangleVertexNormal(va, vs, tri, flat_color, normal_as_color) ==
    LET cs == Corners(tri)
        c == IF flat_color /\ ~normal_as_color
             THEN AverageColor(vs[cs[1]].color, vs[cs[2]].color, vs[cs[3]].color)
             ELSE IF normal_as_color THEN NormalColor(tri.normal)
             ELSE NoColor
        first == Len(va.rows)
        new == [i \in 1..3 |->
                   Row(vs[cs[i]].point, vs[cs[i]].normal,
                       IF flat_color THEN c ELSE vs[cs[i]].color,
                       vs[cs[i]].tex_coord)]
    IN  [rows |-> va.rows \o new,
         prims |-> Append(va.prims, <<first, first + 1, first + 2>>)]

\* flat shading: the rows and the primitive of one triangle, appended to va
FlatTriangle(va, vs, tri, flat_color, normal_as_color) ==
    LET cs == Corners(tri)
        c == IF flat_color /\ ~normal_as_color
             THEN AverageColor(vs[cs[1]].color, vs[cs[2]].color, vs[cs[3]].color)
             ELSE IF normal_as_color THEN NormalColor(tri.normal)
             ELSE NoColor
        first == Len(va.rows)
        new == [i \in 1..3 |->
                   Row(vs[cs[i]].point, tri.normal,
                       IF flat_color THEN c ELSE vs[cs[i]].color,
                       vs[cs[i]].tex_coord)]
    IN  [rows |-> va.rows \o new,
         prims |-> Append(va.prims, <<first, first + 1, first + 2>>)]

RECURSIVE FlatFrom(_, _, _, _, _, _)
FlatFrom(va, vs, ts, t, flat_color, normal_as_color) ==
    IF t \notin DOMAIN ts THEN va
    ELSE FlatFrom(FlatTriangle(va, vs, ts[t], flat_color, normal_as_color),
                  vs, ts, t + 1, flat_color, normal_as_color)

\* smooth shading with normal_as_color ignored
RECURSIVE SmoothRowsStoredColor(_, _, _, _)
SmoothRowsStoredColor(rows, vs, v, normal_as_color) ==
    IF v \notin DOMAIN vs THEN rows
    ELSE SmoothRowsStoredColor(
             Append(rows, Row(vs[v].point, vs[v].normal, vs[v].color,
                              vs[v].tex_coord)),
             vs, v + 1, normal_as_color)

\* smooth shading: one row per vertex, in the order of self._vertices
RECURSIVE SmoothRows(_, _, _, _)
SmoothRows(rows, vs, v, normal_as_color) ==
    IF v \notin DOMAIN vs THEN rows
    ELSE SmoothRows(
             Append(rows, Row(vs[v].point, vs[v].normal,
                              IF normal_as_color THEN NormalColor(vs[v].normal)
                              ELSE vs[v].color,
                              vs[v].tex_coord)),
             vs, v + 1, normal_as_color)

\* v2v[v] is what add_row returned for v: the number of rows written before;
\* the vertices are visited in id order
SmoothPrims(ts) ==
    [t \in 1..Cardinality(DOMAIN ts) |->
        LET cs == Corners(ts[t - 1]) IN <<cs[1], cs[2], cs[3]>>]

ExportFlat(flat_color, normal_as_color) ==
    /\ out' = FlatFrom(NoOut, vertices, triangles, 0, flat_color, normal_as_color)
    /\ last' = [op |-> "export",
                args |-> <<TRUE, flat_color, 80, normal_as_color>>,
                ret |-> 0, err |-> "none"]
    /\ UNCHANGED <<points, vertices, triangles, v_id, t_id, cache, threads, returned>>

\* the smooth branch of export, m being the mesh after
\* self._compute_smooth_normals(edge_angle)
ExportSmoothed(m, edge_angle, normal_as_color) ==
    /\ vertices' = m.vertices
    /\ triangles' = m.triangles
    /\ v_id' = m.v_id
    /\ out' = IF m.err # "none" THEN NoOut
              ELSE [rows |-> SmoothRows(<<>>, m.vertices, 0, normal_as_color),
                    prims |-> SmoothPrims(m.triangles)]
    /\ last' = [op |-> "export",
                args |-> <<FALSE, TRUE, edge_angle, normal_as_color>>,
                ret |-> 0, err |-> m.err]
    /\ UNCHANGED <<points, t_id, cache, threads, returned>>

ExportSmooth(edge_angle) ==
    \E m \in {compute_smooth_normals(points, vertices, triangles, v_id, edge_angle)} :
        \E normal_as_color \in BOOLEAN : ExportSmoothed(m, edge_angle, normal_as_color)

(***************************************************************************)
(* The mesh program: any caller, any order of calls.                       *)
(***************************************************************************)
EmptyFn == [i \in {} |-> 0]

NoCall == [op |-> "init", args |-> <<>>, ret |-> 0, err |-> "none"]

MaxThreads == 3

Threads == 1..MaxThreads

\* a thread that has not called connect_lines: k and the computed list val
\* are its locals, ret and err what its call returned or raised
IdleThread == [pc |-> "idle", k |-> <<>>, val |-> <<>>, ret |-> <<>>, err |-> "none"]

Init ==
    /\ points = <<>>
    /\ vertices = EmptyFn
    /\ triangles = EmptyFn
    /\ v_id = 0
    /\ t_id = 0
    /\ last = NoCall
    /\ out = NoOut
    /\ cache = <<>>
    /\ threads = [t \in Threads |-> IdleThread]
    /\ returned = {}

UniqueInputs == { <<P1, ColorA, TexA>> }

\* The callers stop creating vertices at MaxV and triangles at MaxT; the
\* vertices a smooth export creates are not capped.
Next ==
    \/ \E inp \in VertexInputs :
           AddVertex(inp[1], inp[2], inp[3]) /\ (v_id' = v_id \/ v_id' <= MaxV)
    \/ \E inp \in UniqueInputs :
           InsertUniqueVertex(inp[1], inp[2], inp[3]) /\ v_id' <= MaxV
    \/ \E tr \in TriangleInputs : AddTriangle(tr[1], tr[2], tr[3]) /\ t_id' <= MaxT
    \/ \E fc, nac \in BOOLEAN : ExportFlat(fc, nac)
    \/ \E e \in EdgeAngles : ExportSmooth(e)

Spec == Init /\ [][Next]_vars

(***************************************************************************)
(* The same program on a tetrahedron: the caller registers the four        *)
(* corners with add_vertex (in any order), then adds up to MaxTetraT       *)
(* triangles on two of the faces and exports smooth at 50 and 80 degrees,  *)
(* in any order.  Every id a triangle is built from was returned by        *)
(* add_vertex.                                                             *)
(***************************************************************************)
MaxTetraT == 3

TetraInputs == { <<P0, ColorA, TexA>>, <<P1, ColorA, TexA>>,
                 <<P2, ColorA, TexA>>, <<P3, ColorA, TexA>> }

TetraTriangles == { <<0, 2, 1>>, <<0, 1, 2>>, <<1, 2, 3>> }

TetraAngles == {50, 80}

NextTetra ==
    \/ \E inp \in TetraInputs : AddVertex(inp[1], inp[2], inp[3])
    \/ /\ Len(points) = Cardinality(TetraInputs)
       /\ \E tr \in TetraTriangles :
              AddTriangle(tr[1], tr[2], tr[3]) /\ t_id' <= MaxTetraT
    \/ /\ Len(points) = Cardinality(TetraInputs)
       /\ \E e \in TetraAngles : ExportSmooth(e)

SpecTetra == Init /\ [][NextTetra]_vars

(***************************************************************************)
(* The cube scenario: the caller registers the 8 corners of the unit cube  *)
(* (same color and texcoord), adds the 12 triangles face by face, either   *)
(* diagonal per face, wound so that every normal points outwards, and      *)
(* exports smooth at 80 degrees.                                           *)
(***************************************************************************)
CubeCorner(i) == <<i % 2, (i \div 2) % 2, i \div 4>>

\* the corners of face f, counter-clockwise seen from outside
CubeFace(f) ==
    CASE f = 0 -> <<0, 2, 3, 1>>
      [] f = 1 -> <<4, 5, 7, 6>>
      [] f = 2 -> <<0, 1, 5, 4>>
      [] f = 3 -> <<2, 6, 7, 3>>
      [] f = 4 -> <<0, 4, 6, 2>>
      [] f = 5 -> <<1, 3, 7, 5>>

\* triangle k (0 or 1) of face f cut along diagonal d (0 or 1), as corners
CubeTriangle(f, d, k) ==
    LET q == CubeFace(f)
    IN  IF d = 0
        THEN (IF k = 0 THEN <<q[1], q[2], q[3]>> ELSE <<q[1], q[3], q[4]>>)
        ELSE (IF k = 0 THEN <<q[1], q[2], q[4]>> ELSE <<q[2], q[3], q[4]>>)

\* the id add_vertex returned to the caller for corner i
CubeId(i) ==
    (CHOOSE r \in returned : r.args = <<CubeCorner(i), ColorA, TexA>>).ret

CubeAddCorner ==
    /\ v_id < 8
    /\ t_id = 0
    /\ AddVertex(CubeCorner(v_id), ColorA, TexA)

CubeAddTriangle ==
    /\ Cardinality(returned) = 8
    /\ t_id < 12
    /\ \E d \in {0, 1} :
          LET f == t_id \div 2
              k == t_id % 2
              c == CubeTriangle(f, d, k)
              c0 == CubeTriangle(f, d, 0)
          IN  /\ k = 1 => Corners(triangles[t_id - 1])
                              = <<CubeId(c0[1]), CubeId(c0[2]), CubeId(c0[3])>>
              /\ AddTriangle(CubeId(c[1]), CubeId(c[2]), CubeId(c[3]))

CubeExport ==
    /\ t_id = 12
    /\ ExportSmooth(80)

NextCube == CubeAddCorner \/ CubeAddTriangle \/ CubeExport

SpecCube == Init /\ [][NextCube]_vars

(***************************************************************************)
(* A point with two color variants: the corners of a tetrahedron, the      *)
(* corner (1,0,0) registered with two colors, and three of its faces, each *)
(* on one of the two variants.                                             *)
(***************************************************************************)
MaxVariantT == 3

VariantInputs == TetraInputs \cup { <<P1, ColorB, TexA>> }

\* the id add_vertex returned for the arguments inp
IdOf(inp) == (CHOOSE r \in returned : r.args = inp).ret

\* face normals -z, (1,1,1) and +y; the first two on the ColorB variant of
\* (1,0,0), the third on its ColorA variant
VariantTriangles ==
    { << <<P0, ColorA, TexA>>, <<P2, ColorA, TexA>>, <<P1, ColorB, TexA>> >>,
      << <<P1, ColorB, TexA>>, <<P2, ColorA, TexA>>, <<P3, ColorA, TexA>> >>,
      << <<P0, ColorA, TexA>>, <<P3, ColorA, TexA>>, <<P1, ColorA, TexA>> >> }

VariantAngle == 80

NextVariants ==
    \/ /\ t_id = 0
       /\ last.op # "export"
       /\ \E inp \in VariantInputs : AddVertex(inp[1], inp[2], inp[3])
    \/ /\ Cardinality(returned) = Cardinality(VariantInputs)
       /\ \E tr \in VariantTriangles :
              /\ AddTriangle(IdOf(tr[1]), IdOf(tr[2]), IdOf(tr[3]))
              /\ t_id' <= MaxVariantT
    \/ /\ Cardinality(returned) = Cardinality(VariantInputs)
       /\ ExportSmooth(VariantAngle)

SpecVariants == Init /\ [][NextVariants]_vars

(***************************************************************************)
(* tools._connect_lines and tools.connect_lines                            *)
(***************************************************************************)
\* range(n) as the index set of a sequence: 1..n, with i - 1 for the loop
\* variable; empty for n <= 0
Range(n) == 1..(IF n > 0 THEN n ELSE 0)

\* the entry of the comprehensions for upper == 1
UpperPole(i, lower, wrap_around, ccw) ==
    IF wrap_around
    THEN IF ccw THEN <<<<0>>, <<i, (i + 1) % lower>>>>
         ELSE <<<<0>>, <<(i + 1) % lower, i>>>>
    ELSE IF ccw THEN <<<<0>>, <<i, i + 1>>>>
         ELSE <<<<0>>, <<i + 1, i>>>>

\* the comprehensions for lower == 1 with the same winding for both values
\* of ccw when the band is open
LowerPoleSameWinding(i, upper, wrap_around, ccw) ==
    IF wrap_around
    THEN IF ccw THEN <<<<(i + 1) % upper, i>>, <<0>>>>
         ELSE <<<<i, (i + 1) % upper>>, <<0>>>>
    ELSE <<<<i + 1, i>>, <<0>>>>

\* the entry of the comprehensions for lower == 1
LowerPole(i, upper, wrap_around, ccw) ==
    IF wrap_around
    THEN IF ccw THEN <<<<(i + 1) % upper, i>>, <<0>>>>
         ELSE <<<<i, (i + 1) % upper>>, <<0>>>>
    ELSE IF ccw THEN <<<<i + 1, i>>, <<0>>>>
         ELSE <<<<i, i + 1>>, <<0>>>>

\* the ring loop always left open
RingCountOpen(upper, wrap_around) == upper - 1

\* range(upper if wrap_around else upper - 1)
RingCount(upper, wrap_around) == IF wrap_around THEN upper ELSE upper - 1

\* the loop body with next_i = i + 1, the modulo left out
RingPairNoModulo(i, upper, ccw) ==
    LET next_i == i + 1
    IN  IF ccw
        THEN << <<<<i>>, <<i, next_i>>>>, <<<<next_i, i>>, <<next_i>>>> >>
        ELSE << <<<<i>>, <<next_i, i>>>>, <<<<i, next_i>>, <<next_i>>>> >>

\* the two entries the loop body appends for index i
RingPair(i, upper, ccw) ==
    LET next_i == (i + 1) % upper
    IN  IF ccw
        THEN << <<<<i>>, <<i, next_i>>>>, <<<<next_i, i>>, <<next_i>>>> >>
        ELSE << <<<<i>>, <<next_i, i>>>>, <<<<i, next_i>>, <<next_i>>>> >>

RECURSIVE RingFrom(_, _, _, _)
RingFrom(i, n, upper, ccw) ==
    IF i >= n THEN <<>>
    ELSE RingPair(i, upper, ccw) \o RingFrom(i + 1, n, upper, ccw)

Count1(upper, lower) ==
    (IF upper = 1 THEN 1 ELSE 0) + (IF lower = 1 THEN 1 ELSE 0)

\* the argument check with count(1) >= 1 in place of count(1) == 1
ValidLinesAnyOne(upper, lower) ==
    (1 < upper /\ upper = lower) \/ Count1(upper, lower) >= 1

\* the argument check: not (1 < upper == lower or [upper, lower].count(1) == 1)
ValidLines(upper, lower) ==
    (1 < upper /\ upper = lower) \/ Count1(upper, lower) = 1

\* the list _connect_lines returns for valid arguments
connect_lines_list(upper, lower, wrap_around, ccw) ==
    IF upper = 1 \/ lower = 1
    THEN IF upper = 1
         THEN [i \in Range(IF wrap_around THEN lower ELSE lower - 1) |->
                  UpperPole(i - 1, lower, wrap_around, ccw)]
         ELSE [i \in Range(IF wrap_around THEN upper ELSE upper - 1) |->
                  LowerPole(i - 1, upper, wrap_around, ccw)]
    ELSE RingFrom(0, RingCount(upper, wrap_around), upper, ccw)

\* _connect_lines: [err, ret]
connect_lines_uncached(upper, lower, wrap_around, ccw) ==
    IF ~ValidLines(upper, lower)
    THEN [err |-> "ValueError", ret |-> <<>>]
    ELSE [err |-> "none", ret |-> connect_lines_list(upper, lower, wrap_around, ccw)]

\* connect_lines with ccw left out of the cache key
ConnectLinesShortKey(upper, lower, wrap_around, ccw) ==
    LET k == <<upper, lower, wrap_around, TRUE>>
        a == <<upper, lower, wrap_around, ccw>>
    IN  IF k \in DOMAIN cache
        THEN /\ last' = [op |-> "connect_lines", args |-> a,
                         ret |-> cache[k], err |-> "none"]
             /\ UNCHANGED cache
        ELSE \E r \in {connect_lines_uncached(upper, lower, wrap_around, ccw)} :
                IF r.err # "none"
                THEN /\ last' = [op |-> "connect_lines", args |-> a,
                                 ret |-> <<>>, err |-> r.err]
                     /\ UNCHANGED cache
                ELSE /\ cache' = [x \in (DOMAIN cache) \cup {k} |->
                                     IF x = k THEN r.ret ELSE cache[x]]
                     /\ last' = [op |-> "connect_lines", args |-> a,
                                 ret |-> r.ret, err |-> "none"]

\* connect_lines: the cache is a dict from the key tuple to the list
ConnectLines(upper, lower, wrap_around, ccw) ==
    LET k == <<upper, lower, wrap_around, ccw>>
    IN  IF k \in DOMAIN cache
        THEN /\ last' = [op |-> "connect_lines", args |-> k,
                         ret |-> cache[k], err |-> "none"]
             /\ UNCHANGED cache
        ELSE \E r \in {connect_lines_uncached(upper, lower, wrap_around, ccw)} :
                IF r.err # "none"
                THEN /\ last' = [op |-> "connect_lines", args |-> k,
                                 ret |-> <<>>, err |-> r.err]
                     /\ UNCHANGED cache
                ELSE /\ cache' = [x \in (DOMAIN cache) \cup {k} |->
                                     IF x = k THEN r.ret ELSE cache[x]]
                     /\ last' = [op |-> "connect_lines", args |-> k,
                                 ret |-> r.ret, err |-> "none"]

RingSizes == 0..MaxRing

\* The callers ask for at most MaxCache different valid keys.
NextLines ==
    \E upper, lower \in RingSizes, wrap_around, ccw \in BOOLEAN :
        /\ ConnectLines(upper, lower, wrap_around, ccw)
        /\ Cardinality(DOMAIN cache') <= MaxCache
        /\ UNCHANGED <<points, vertices, triangles, v_id, t_id, out, threads, returned>>

SpecLines == Init /\ [][NextLines]_vars

(***************************************************************************)
(* connect_lines called from several threads.  Each thread runs the body   *)
(* of connect_lines on its own locals; the membership test, the            *)
(* computation, the store into the dict and the final lookup are separate  *)
(* steps that interleave with the steps of the other threads.  A single    *)
(* dict operation on the tuple keys is atomic.                             *)
(***************************************************************************)
\* the argument tuples the threads call with: two windings of the same
\* rings, a pole, and an invalid pair of sizes
ThreadArgs ==
    { <<3, 3, TRUE, TRUE>>, <<3, 3, TRUE, FALSE>>, <<3, 1, FALSE, TRUE>>,
      <<0, 3, TRUE, TRUE>> }

SetThread(t, r) == [threads EXCEPT ![t] = r]

\* k = (upper, lower, wrap_around, ccw)
ThreadCall(t, args) ==
    /\ threads[t].pc \in {"idle", "returned", "raised"}
    /\ threads' = SetThread(t, [IdleThread EXCEPT !.pc = "test", !.k = args])
    /\ UNCHANGED <<cache, meshVars, last, out, returned>>

\* if k not in _connect_lines_cache:
ThreadTest(t) ==
    /\ threads[t].pc = "test"
    /\ threads' = SetThread(t, [threads[t] EXCEPT !.pc =
                      IF threads[t].k \in DOMAIN cache THEN "return" ELSE "compute"])
    /\ UNCHANGED <<cache, meshVars, last, out, returned>>

\* _connect_lines(*k), evaluated before the store; a ValueError ends the call
ThreadCompute(t) ==
    /\ threads[t].pc = "compute"
    /\ \E k \in {threads[t].k} :
         \E r \in {connect_lines_uncached(k[1], k[2], k[3], k[4])} :
            threads' = SetThread(t,
                IF r.err # "none"
                THEN [threads[t] EXCEPT !.pc = "raised", !.err = r.err]
                ELSE [threads[t] EXCEPT !.pc = "store", !.val = r.ret])
    /\ UNCHANGED <<cache, meshVars, last, out, returned>>

\* the store with the computed list in a variable all threads share
ThreadStoreSharedValue(t) ==
    /\ threads[t].pc = "store"
    /\ \E u \in Threads :
          /\ threads[u].pc = "store"
          /\ cache' = [x \in (DOMAIN cache) \cup {threads[t].k} |->
                          IF x = threads[t].k THEN threads[u].val ELSE cache[x]]
    /\ threads' = SetThread(t, [threads[t] EXCEPT !.pc = "return"])
    /\ UNCHANGED <<meshVars, last, out, returned>>

\* _connect_lines_cache[k] = <the computed list>
ThreadStore(t) ==
    /\ threads[t].pc = "store"
    /\ cache' = [x \in (DOMAIN cache) \cup {threads[t].k} |->
                    IF x = threads[t].k THEN threads[t].val ELSE cache[x]]
    /\ threads' = SetThread(t, [threads[t] EXCEPT !.pc = "return"])
    /\ UNCHANGED <<meshVars, last, out, returned>>

\* return _connect_lines_cache[k]; a missing key would raise KeyError
ThreadReturn(t) ==
    /\ threads[t].pc = "return"
    /\ threads' = SetThread(t,
           IF threads[t].k \in DOMAIN cache
           THEN [threads[t] EXCEPT !.pc = "returned", !.ret = cache[threads[t].k]]
           ELSE [threads[t] EXCEPT !.pc = "raised", !.err = "KeyError"])
    /\ UNCHANGED <<cache, meshVars, last, out, returned>>

NextThreads ==
    \E t \in Threads :
        \/ \E args \in ThreadArgs : ThreadCall(t, args)
        \/ ThreadTest(t)
        \/ ThreadCompute(t)
        \/ ThreadStore(t)
        \/ ThreadReturn(t)

SpecThreads == Init /\ [][NextThreads]_vars

(***************************************************************************)
(* Mesh._compute_normal_groups as a function of its arguments: the         *)
(* triangles of one point, any face normals, in creation order.            *)
(***************************************************************************)
MaxGroupT == 3

\* face normals as integer directions; the zero vector is the normal of a
\* triangle without area
NormalInputs ==
    { <<0, 0, 1>>, <<1, 0, 0>>, <<1, 1, 1>>, <<0, 0, -1>>, <<0, 0, 0>> }

GroupAngles == {0, 50, 80, 100}

InitGroups ==
    /\ \E n \in 0..MaxGroupT : \E f \in [0..(n - 1) -> NormalInputs] :
          /\ triangles = [t \in 0..(n - 1) |->
                             [va |-> 0, vb |-> 0, vc |-> 0,
                              normal |-> f[t], normal_mag |-> f[t]]]
          /\ t_id = n
    /\ points = <<>>
    /\ vertices = EmptyFn
    /\ v_id = 0
    /\ last = NoCall
    /\ out = NoOut
    /\ cache = <<>>
    /\ threads = [t \in Threads |-> IdleThread]
    /\ returned = {}

\* groups = self._compute_normal_groups(tris, split_cos) on the dict that
\* holds the triangles in creation order
ComputeNormalGroups(edge_angle) ==
    /\ last' = [op |-> "compute_normal_groups", args |-> <<edge_angle>>,
                ret |-> compute_normal_groups(
                            triangles,
                            [i \in 1..t_id |-> [k |-> i - 1, v |-> 0]],
                            split_cos(edge_angle)),
                err |-> "none"]
    /\ UNCHANGED <<points, vertices, triangles, v_id, t_id, out, cache, threads, returned>>

NextGroups == \E e \in GroupAngles : ComputeNormalGroups(e)

SpecGroups == InitGroups /\ [][NextGroups]_vars

(***************************************************************************)
(* Vocabulary of the properties.                                           *)
(***************************************************************************)
\* the positions that carry a vertex
MeshPositions == {vertices[v].point : v \in DOMAIN vertices}

\* the last call was export(flat_shading=False, ...) and it returned
SmoothExported ==
    last.op = "export" /\ last.args[1] = FALSE /\ last.err = "none"

\* the last call was export(flat_shading=True, ...)
FlatExported == last.op = "export" /\ last.args[1] = TRUE

\* the vertex ids triangle t references at position p
CornersAt(t, p) ==
    {v \in {triangles[t].va, triangles[t].vb, triangles[t].vc} :
        vertices[v].point = p}

\* the triangles with a corner at position p
TrianglesAt(p) == {t \in DOMAIN triangles : CornersAt(t, p) # {}}

VerticesAt(p) == {v \in DOMAIN vertices : vertices[v].point = p}

\* 10000 * cos(edge_angle), rounded
Cos10k(edge_angle) ==
    CASE edge_angle = 0   -> 10000
      [] edge_angle = 50  -> 6428
      [] edge_angle = 80  -> 1736
      [] edge_angle = 100 -> -1736
      [] edge_angle = 180 -> -10000

\* the angle between the unit vectors of a and b exceeds edge_angle: their
\* dot product is below cos(edge_angle); a zero vector has dot product 0
AngleExceeds(a, b, edge_angle) ==
    LET d == VecDot(a, b)
        m == VecDot(a, a) * VecDot(b, b)
        k == Cos10k(edge_angle)
    IN  IF d = 0 THEN k > 0
        ELSE IF d > 0 THEN k > 0 /\ d * d * 100000000 < k * k * m
        ELSE k >= 0 \/ d * d * 100000000 > k * k * m

\* the stored face normals of t1 and t2 are more than edge_angle apart
Sharp(t1, t2, edge_angle) ==
    AngleExceeds(triangles[t1].normal, triangles[t2].normal, edge_angle)

\* all triangles incident to position p are pairwise within edge_angle
AllWithin(p, edge_angle) ==
    \A t1, t2 \in TrianglesAt(p) : ~Sharp(t1, t2, edge_angle)

(***************************************************************************)
(* C1: after export(flat_shading=False, edge_angle=E), also on a mesh that *)
(* was exported before, two triangles with a corner at the same position   *)
(* whose face normals are more than E apart reference different vertex     *)
(* ids at that position.                                                   *)
(***************************************************************************)
C1_EdgeSplit ==
    SmoothExported =>
        \A p \in MeshPositions : \A t1, t2 \in TrianglesAt(p) :
            (t1 # t2 /\ Sharp(t1, t2, last.args[3]))
                => CornersAt(t1, p) \cap CornersAt(t2, p) = {}

(***************************************************************************)
(* C2 as claimed: after export(flat_shading=False, edge_angle=E), a        *)
(* position whose incident triangles are pairwise within E carries exactly *)
(* one vertex.                                                             *)
(***************************************************************************)
C2_ExactlyOneVertex ==
    SmoothExported =>
        \A p \in MeshPositions :
            AllWithin(p, last.args[3]) => Cardinality(VerticesAt(p)) = 1

(***************************************************************************)
(* C2 as amended: an export(flat_shading=False, edge_angle=E) creates no   *)
(* vertex at a position whose incident triangles are pairwise within E:    *)
(* the vertices at that position after the call are those that were there  *)
(* before it.                                                              *)
(***************************************************************************)
C2_NoVertexCreated ==
    [][SmoothExported' =>
          \A p \in MeshPositions' :
              AllWithin(p, last.args[3])' => VerticesAt(p)' = VerticesAt(p)]_vars

\* a smooth export has run on two triangles that meet, within the edge
\* angle but with different normals, at a position that carries two vertices
C2_Witness ==
    /\ SmoothExported
    /\ \E p \in MeshPositions :
          /\ AllWithin(p, last.args[3])
          /\ Cardinality(VerticesAt(p)) = 2
          /\ \E t1, t2 \in TrianglesAt(p) :
                triangles[t1].normal # triangles[t2].normal

(***************************************************************************)
(* C3: add_vertex returns the same id for the same (position, color,       *)
(* texcoord) every time, whatever add_triangle and export calls come in    *)
(* between, and two calls that differ in color or texcoord but not in      *)
(* position return different ids of vertices at that same position.        *)
(***************************************************************************)
C3_Dedup ==
    \A r1, r2 \in returned :
        /\ r1.args = r2.args => r1.ret = r2.ret
        /\ (r1.args[1] = r2.args[1] /\ r1.args # r2.args)
              => /\ r1.ret # r2.ret
                 /\ vertices[r1.ret].point = r1.args[1]
                 /\ vertices[r2.ret].point = r1.args[1]

\* add_vertex has just returned an old id again although a smooth export
\* has split a copy off that vertex, and the position holds another variant
C3_Witness ==
    /\ last.op = "add_vertex"
    /\ \E v \in DOMAIN vertices :
          /\ v > last.ret
          /\ vertices[v].normal # PlaceholderNormal
          /\ <<vertices[v].point, vertices[v].color, vertices[v].tex_coord>>
                = last.args
    /\ \E r \in returned : r.args[1] = last.args[1] /\ r.args # last.args

(***************************************************************************)
(* C4: the cube (8 add_vertex, 12 add_triangle, adjacent faces at 90       *)
(* degrees) exported with flat_shading=False, edge_angle=80 ends with 24   *)
(* vertices, 3 at each corner carrying the normals of the three faces      *)
(* that meet there, and 12 triangles; the export emits 24 vertex records   *)
(* and 12 index triples.                                                   *)
(***************************************************************************)
C4_Cube ==
    SmoothExported =>
        /\ v_id = 24
        /\ Cardinality(DOMAIN vertices) = 24
        /\ \A i \in 0..7 :
              /\ Cardinality(VerticesAt(CubeCorner(i))) = 3
              /\ {vertices[v].normal : v \in VerticesAt(CubeCorner(i))}
                    = {triangles[t].normal : t \in TrianglesAt(CubeCorner(i))}
              /\ Cardinality({vertices[v].normal : v \in VerticesAt(CubeCorner(i))}) = 3
        /\ t_id = 12
        /\ Cardinality(DOMAIN triangles) = 12
        /\ Len(out.rows) = 24
        /\ Len(out.prims) = 12

\* the complete cube has been exported at 80 degrees
C4_Witness ==
    /\ SmoothExported
    /\ last.args[3] = 80
    /\ t_id = 12
    /\ Cardinality(returned) = 8
    /\ Len(out.rows) > 8

(***************************************************************************)
(* C5 as claimed: export(flat_shading=False) emits one record per vertex,  *)
(* record index = vertex id, carrying the vertex's position, normal, color *)
(* and texcoord, and one index triple per triangle, in creation order,     *)
(* holding the record indices of the vertices the triangle references.     *)
(***************************************************************************)
SmoothIndexTriples ==
    /\ Len(out.prims) = t_id
    /\ \A t \in DOMAIN triangles :
          out.prims[t + 1] = <<triangles[t].va, triangles[t].vb, triangles[t].vc>>

C5_SmoothRecords ==
    SmoothExported =>
        /\ Len(out.rows) = v_id
        /\ \A v \in DOMAIN vertices :
              out.rows[v + 1] = [point |-> vertices[v].point,
                                 normal |-> vertices[v].normal,
                                 color |-> vertices[v].color,
                                 tex |-> vertices[v].tex_coord]
        /\ SmoothIndexTriples

(***************************************************************************)
(* C5 as amended: the same, except that with normal_as_color=True the      *)
(* color of a record is (normal x, y, z, 1) of its vertex instead of the   *)
(* vertex's color.                                                         *)
(***************************************************************************)
C5_SmoothRecordsAmended ==
    SmoothExported =>
        /\ Len(out.rows) = v_id
        /\ DOMAIN vertices = 0..(v_id - 1)
        /\ \A v \in DOMAIN vertices :
              out.rows[v + 1] =
                  [point |-> vertices[v].point,
                   normal |-> vertices[v].normal,
                   color |-> IF last.args[4]
                             THEN <<vertices[v].normal[1], vertices[v].normal[2],
                                    vertices[v].normal[3], 1>>
                             ELSE vertices[v].color,
                   tex |-> vertices[v].tex_coord]
        /\ SmoothIndexTriples

\* a smooth export with normal_as_color=True has split a vertex and
\* redirected a triangle to the new one
C5_Witness ==
    /\ SmoothExported
    /\ last.args[4] = TRUE
    /\ \E t \in DOMAIN triangles :
          \E v \in {triangles[t].va, triangles[t].vb, triangles[t].vc} :
              /\ v \notin {r.ret : r \in returned}
              /\ vertices[v].normal # PlaceholderNormal

(***************************************************************************)
(* C6: export(flat_shading=True) on T triangles emits 3*T records and T    *)
(* index triples; triangle k (creation order) yields records 3k, 3k+1,     *)
(* 3k+2 for its corners in winding order, each with the triangle's stored  *)
(* face normal, and the index triple (3k, 3k+1, 3k+2).                     *)
(***************************************************************************)
C6_FlatRecords ==
    FlatExported =>
        /\ Len(out.rows) = 3 * t_id
        /\ Len(out.prims) = t_id
        /\ \A k \in DOMAIN triangles :
              LET cs == <<triangles[k].va, triangles[k].vb, triangles[k].vc>>
              IN  /\ out.prims[k + 1] = <<3 * k, 3 * k + 1, 3 * k + 2>>
                  /\ \A i \in 1..3 :
                        /\ out.rows[3 * k + i].point = vertices[cs[i]].point
                        /\ out.rows[3 * k + i].tex = vertices[cs[i]].tex_coord
                        /\ out.rows[3 * k + i].normal = triangles[k].normal

\* a flat export of two triangles that share a vertex whose own normal is
\* not the face normal of the second one
C6_Witness ==
    /\ FlatExported
    /\ t_id = 2
    /\ \E v \in DOMAIN vertices :
          /\ v \in {triangles[0].va, triangles[0].vb, triangles[0].vc}
          /\ v \in {triangles[1].va, triangles[1].vb, triangles[1].vc}
          /\ vertices[v].normal # triangles[1].normal
    /\ Len(out.rows) = 6

(***************************************************************************)
(* C7: in export(flat_shading=True, normal_as_color=True) every record's   *)
(* color is (triangle normal x, y, z, 1), for flat_color=True and for      *)
(* flat_color=False.                                                       *)
(***************************************************************************)
C7_NormalAsColor ==
    (FlatExported /\ last.args[4] = TRUE) =>
        \A k \in DOMAIN triangles : \A i \in 1..3 :
            out.rows[3 * k + i].color =
                <<triangles[k].normal[1], triangles[k].normal[2],
                  triangles[k].normal[3], 1>>

(***************************************************************************)
(* C8: after export(flat_shading=False, ...) no vertex record carries the  *)
(* initial placeholder normal (-2,-2,-2), for any mesh built through       *)
(* add_vertex, insert_unique_vertex and add_triangle.                      *)
(***************************************************************************)
C8_NoPlaceholder ==
    SmoothExported =>
        \A i \in 1..Len(out.rows) : out.rows[i].normal # <<-2, -2, -2>>

(***************************************************************************)
(* C9: add_triangle fails with an invalid-reference error exactly when one *)
(* of its three ids is no vertex id, and the failed call changes nothing   *)
(* of the mesh: no triangle, no triangle id, no incidence list.            *)
(***************************************************************************)
C9_InvalidReference ==
    [][last'.op = "add_triangle" =>
          IF FALSE \in {last'.args[1], last'.args[2], last'.args[3]}
          THEN /\ last'.err = "KeyError"
               /\ UNCHANGED <<points, vertices, triangles, v_id, t_id>>
          ELSE /\ last'.err = "none"
               /\ t_id' = t_id + 1]_vars

\* add_triangle has failed on its third id, the first two being vertices
\* that already have incident triangles
C9_Witness ==
    /\ last.op = "add_triangle"
    /\ last.err = "KeyError"
    /\ last.args = <<TRUE, TRUE, FALSE>>
    /\ t_id >= 1
    /\ \E v \in DOMAIN vertices : Len(vertices[v].triangles) >= 1

(***************************************************************************)
(* C10: for n > 1, connect_lines(n, n, wrap_around=True) returns 2n        *)
(* entries and connect_lines(n, n, wrap_around=False) 2(n-1); for n > 1,   *)
(* connect_lines(1, n) and connect_lines(n, 1) with wrap_around=True       *)
(* return n entries; for both values of ccw.                               *)
(***************************************************************************)
C10_Sizes ==
    last.op = "connect_lines" =>
        LET upper == last.args[1]
            lower == last.args[2]
            wrap_around == last.args[3]
        IN  /\ (upper = lower /\ upper > 1)
                  => /\ last.err = "none"
                     /\ Len(last.ret) = IF wrap_around THEN 2 * upper
                                        ELSE 2 * (upper - 1)
            /\ (upper = 1 /\ lower > 1 /\ wrap_around)
                  => last.err = "none" /\ Len(last.ret) = lower
            /\ (lower = 1 /\ upper > 1 /\ wrap_around)
                  => last.err = "none" /\ Len(last.ret) = upper

\* connect_lines(3, 3, wrap_around=True, ccw=False) has returned 6 entries
\* and the cache holds another key
C10_Witness ==
    /\ last.op = "connect_lines"
    /\ last.args = <<3, 3, TRUE, FALSE>>
    /\ Len(last.ret) = 6
    /\ Cardinality(DOMAIN cache) = 2

\* the argument pairs connect_lines accepts, in the words of its error
\* message: the same and > 1, or exactly one of the two equal to 1
AcceptedLines(upper, lower) ==
    \/ upper = lower /\ upper > 1
    \/ upper = 1 /\ lower # 1
    \/ lower = 1 /\ upper # 1

(***************************************************************************)
(* C11: connect_lines raises an invalid-argument error for every           *)
(* (upper, lower) that is neither (equal and > 1) nor (exactly one equal   *)
(* to 1); the raising call stores nothing under its key and leaves the     *)
(* cache as it was, so the key is never in the cache and the call raises   *)
(* again.                                                                  *)
(***************************************************************************)
C11_InvalidArgument ==
    [][(last'.op = "connect_lines"
          /\ ~AcceptedLines(last'.args[1], last'.args[2]))
         => /\ last'.err = "ValueError"
            /\ cache' = cache
            /\ last'.args \notin DOMAIN cache']_vars

\* connect_lines(2, 3) has raised while the cache holds an entry
C11_Witness ==
    /\ last.op = "connect_lines"
    /\ last.args[1] = 2
    /\ last.args[2] = 3
    /\ last.err = "ValueError"
    /\ Cardinality(DOMAIN cache) >= 1

(***************************************************************************)
(* C12: memoization is transparent: every connect_lines call returns (or   *)
(* raises) what the uncached _connect_lines returns (or raises) for the    *)
(* same arguments, and every cache entry equals _connect_lines of its key. *)
(***************************************************************************)
C12_Transparent ==
    /\ \A k \in DOMAIN cache :
          /\ connect_lines_uncached(k[1], k[2], k[3], k[4]).err = "none"
          /\ cache[k] = connect_lines_uncached(k[1], k[2], k[3], k[4]).ret
    /\ last.op = "connect_lines" =>
          LET r == connect_lines_uncached(last.args[1], last.args[2],
                                          last.args[3], last.args[4])
          IN  /\ last.err = r.err
              /\ last.ret = r.ret

\* the key of the last call is in the cache next to the key with the same
\* ring sizes and the other ccw
C12_Witness ==
    /\ last.op = "connect_lines"
    /\ last.err = "none"
    /\ last.args = <<3, 3, TRUE, FALSE>>
    /\ DOMAIN cache = {<<3, 3, TRUE, FALSE>>, <<3, 3, TRUE, TRUE>>}

\* the ids add_vertex has returned so far
AddVertexIds == {r.ret : r \in returned}

(***************************************************************************)
(* C13: a vertex created by insert_unique_vertex, called directly or by    *)
(* the splitting pass, is never registered for deduplication: the call     *)
(* returns an id that no call returned before, and add_vertex, whatever    *)
(* its arguments, returns either a new id or one add_vertex returned       *)
(* before.                                                                 *)
(***************************************************************************)
C13_NeverRegistered ==
    [][/\ (last'.op = "add_vertex" /\ last'.ret \in DOMAIN vertices)
            => last'.ret \in AddVertexIds
       /\ last'.op = "insert_unique_vertex"
            => /\ last'.ret \notin DOMAIN vertices
               /\ last'.ret \in DOMAIN vertices'
               /\ last'.ret \notin AddVertexIds'
       /\ \A v \in (DOMAIN vertices') \ (DOMAIN vertices) :
              /\ v >= v_id
              /\ last'.op # "add_vertex" => v \notin AddVertexIds']_vars

\* add_vertex has returned an id while the mesh holds, with the same
\* position, color and texcoord, a vertex inserted by a direct
\* insert_unique_vertex call and a vertex split off by a smooth export
C13_Witness ==
    /\ last.op = "add_vertex"
    /\ \E u, w \in (DOMAIN vertices) \ AddVertexIds :
          /\ <<vertices[u].point, vertices[u].color, vertices[u].tex_coord>>
                = last.args
          /\ <<vertices[w].point, vertices[w].color, vertices[w].tex_coord>>
                = last.args
          /\ vertices[u].normal = PlaceholderNormal
          /\ vertices[w].normal # PlaceholderNormal
          /\ vertices[w].triangles # <<>>

\* the clusters of the point with index i for edge angle e, computed on the
\* mesh as it is before the pass
PointClusters(i, e) ==
    compute_normal_groups(triangles, TrisAtPoint(vertices, points[i]),
                          split_cos(e))

\* triangle t references vertex v in one of its slots
Incident(t, v) == v \in {triangles[t].va, triangles[t].vb, triangles[t].vc}

\* the indices of the clusters that hold a triangle incident to v
Touching(groups, v) ==
    {g \in 1..Len(groups) :
        \E j \in 1..Len(groups[g]) : Incident(groups[g][j], v)}

FirstOf(S) == CHOOSE g \in S : \A h \in S : g <= h

\* the (vertex, cluster) pairs of point i for which the rule asks a new
\* vertex: every cluster touching a registered vertex but the first
FurtherClusters(i, e) ==
    LET groups == PointClusters(i, e)
    IN  {<<points[i].combinations[c].v, g>> :
            c \in 1..Len(points[i].combinations), g \in 1..Len(groups)}
        \cap {x \in (DOMAIN vertices) \X (1..Len(groups)) :
                 /\ x[2] \in Touching(groups, x[1])
                 /\ x[2] # FirstOf(Touching(groups, x[1]))}

\* what the rule says about the registered vertex v of point i
SplitRuleAt(i, v, e) ==
    LET groups == PointClusters(i, e)
        touch == Touching(groups, v)
        members(g) == {groups[g][j] : j \in 1..Len(groups[g])}
    IN  touch # {} =>
          /\ vertices'[v].normal = GroupNormal(triangles, groups[FirstOf(touch)])
          /\ \A t \in DOMAIN triangles :
                Incident(t, v)' <=>
                    (Incident(t, v) /\ t \in members(FirstOf(touch)))
          /\ \A g \in touch \ {FirstOf(touch)} :
                \E w \in (DOMAIN vertices') \ (DOMAIN vertices) :
                    /\ vertices'[w].point = vertices[v].point
                    /\ vertices'[w].color = vertices[v].color
                    /\ vertices'[w].tex_coord = vertices[v].tex_coord
                    /\ vertices'[w].normal = GroupNormal(triangles, groups[g])
                    /\ \A t \in members(g) :
                          /\ triangles[t].va = v => triangles'[t].va = w
                          /\ triangles[t].vb = v => triangles'[t].vb = w
                          /\ triangles[t].vc = v => triangles'[t].vc = w

(***************************************************************************)
(* C14: splitting rule of the smoothing pass: a deduplicated vertex v      *)
(* whose incident triangles fall into k >= 1 clusters keeps its id, gets   *)
(* the normal of the first cluster touching it and stays referenced by     *)
(* exactly that cluster's triangles; each further cluster gets one new     *)
(* vertex with v's position, color and texcoord and the cluster's normal,  *)
(* referenced by the cluster's triangles in the slot that held v; the      *)
(* pass creates exactly k - 1 vertices for v, none when k = 1.             *)
(***************************************************************************)
C14_SplitRule ==
    [][(SmoothExported' /\ last'.err = "none") =>
          /\ \A i \in 1..Len(points) :
                \A c \in 1..Len(points[i].combinations) :
                    SplitRuleAt(i, points[i].combinations[c].v, last'.args[3])
          /\ Cardinality((DOMAIN vertices') \ (DOMAIN vertices))
                = Cardinality(UNION {FurtherClusters(i, last'.args[3]) :
                                        i \in 1..Len(points)})]_vars

\* the triangles of cluster g
ClusterMembers(groups, g) == {groups[g][j] : j \in 1..Len(groups[g])}

(***************************************************************************)
(* C15: greedy clustering at a point: every triangle is in exactly one     *)
(* cluster; any two triangles of a cluster have face-normal dot product    *)
(* >= cos(edge_angle); a triangle joins the earliest-created cluster whose *)
(* members at that moment all accept it, so every cluster created before   *)
(* its own holds an earlier triangle that rejects it.                      *)
(***************************************************************************)
C15_Greedy ==
    last.op = "compute_normal_groups" =>
        LET groups == last.ret
            e == last.args[1]
        IN  /\ \A t \in DOMAIN triangles :
                  Cardinality({<<g, j>> \in (1..Len(groups)) \X (1..t_id) :
                                  j <= Len(groups[g]) /\ groups[g][j] = t}) = 1
            /\ \A g \in 1..Len(groups) :
                  /\ groups[g] # <<>>
                  /\ ClusterMembers(groups, g) \subseteq DOMAIN triangles
                  /\ \A t1, t2 \in ClusterMembers(groups, g) :
                        t1 # t2 => ~Sharp(t1, t2, e)
            /\ \A g \in 1..Len(groups) : \A t \in ClusterMembers(groups, g) :
                  \A h \in 1..(g - 1) :
                      \E tt \in ClusterMembers(groups, h) :
                          tt < t /\ Sharp(t, tt, e)

\* at 80 degrees a triangle was accepted by the first member of the first
\* cluster, rejected by its second member and put into a second cluster
C15_Witness ==
    /\ last.op = "compute_normal_groups"
    /\ last.args[1] = 80
    /\ last.ret = <<<<0, 1>>, <<2>>>>
    /\ ~Sharp(2, 0, 80)
    /\ Sharp(2, 1, 80)

\* the triangles in the order the pass visits them at the point with index
\* i: the keys of tris
VisitOrder(i) ==
    LET tris == TrisAtPoint(vertices, points[i])
    IN  [j \in 1..Len(tris) |-> tris[j].k]

RECURSIVE AscendingSeq(_)
AscendingSeq(S) ==
    IF S = {} THEN <<>>
    ELSE LET lo == CHOOSE x \in S : \A y \in S : x <= y
         IN  <<lo>> \o AscendingSeq(S \ {lo})

\* the triangles that reference the registered vertices of point i, vertex
\* by vertex in registration order from entry c on, each vertex's triangles
\* in creation order
RECURSIVE ByVariant(_, _)
ByVariant(i, c) ==
    IF c > Len(points[i].combinations) THEN <<>>
    ELSE AscendingSeq({t \in DOMAIN triangles :
                          Incident(t, points[i].combinations[c].v)})
         \o ByVariant(i, c + 1)

\* s without the later occurrences of its elements
FirstOccurrences(s) ==
    LET keep == {j \in 1..Len(s) : \A h \in 1..(j - 1) : s[h] # s[j]}
    IN  [n \in 1..Cardinality(keep) |->
            s[CHOOSE j \in keep : Cardinality({h \in keep : h <= j}) = n]]

(***************************************************************************)
(* C16 as claimed: at every point the clustering pass of a smooth export   *)
(* visits the incident triangles in creation order (ascending triangle     *)
(* id), also with several vertex variants at the point.                    *)
(***************************************************************************)
C16_CreationOrder ==
    [][SmoothExported' =>
          \A i \in 1..Len(points) :
              \A j, h \in 1..Len(VisitOrder(i)) :
                  j < h => VisitOrder(i)[j] < VisitOrder(i)[h]]_vars

(***************************************************************************)
(* C16 as amended: at every point the clustering pass of a smooth export   *)
(* visits the triangles variant by variant: the registered vertices of the *)
(* point in registration order, the triangles of each in creation order,   *)
(* a triangle that references several of them at its first place only.    *)
(***************************************************************************)
C16_VariantOrder ==
    [][SmoothExported' =>
          \A i \in 1..Len(points) :
              VisitOrder(i) = FirstOccurrences(ByVariant(i, 1))]_vars

\* a smooth export has run on a point with two variants, the triangle of
\* the variant registered first being the younger one
C16_Witness ==
    /\ SmoothExported
    /\ \E i \in 1..Len(points) :
          /\ Len(points[i].combinations) = 2
          /\ \E t1, t2 \in DOMAIN triangles :
                /\ t2 < t1
                /\ Incident(t1, points[i].combinations[1].v)
                /\ Incident(t2, points[i].combinations[2].v)
                /\ ~Incident(t2, points[i].combinations[1].v)
                /\ triangles[t1].normal # ZeroVec
                /\ triangles[t2].normal # ZeroVec

\* the number of slots of triangle t that reference vertex v
SlotCount(t, v) ==
    Cardinality({n \in 1..3 :
                    <<triangles[t].va, triangles[t].vb, triangles[t].vc>>[n] = v})

\* the number of occurrences of triangle t in the incidence list of v
ListCount(v, t) ==
    Cardinality({j \in 1..Len(vertices[v].triangles) :
                    vertices[v].triangles[j] = t})

(***************************************************************************)
(* C17: vertex/triangle incidence stays consistent in both directions:     *)
(* after any sequence of add_vertex, add_triangle and export calls, for    *)
(* every triangle t and vertex v the number of slots of t that reference v *)
(* equals the number of occurrences of t in v's incidence list, and no     *)
(* export ends in the consistency error of replace_vertex or               *)
(* remove_from_triangle.                                                   *)
(***************************************************************************)
C17_Incidence ==
    /\ \A v \in DOMAIN vertices :
          /\ \A j \in 1..Len(vertices[v].triangles) :
                vertices[v].triangles[j] \in DOMAIN triangles
          /\ \A t \in DOMAIN triangles : SlotCount(t, v) = ListCount(v, t)
    /\ \A t \in DOMAIN triangles :
          {triangles[t].va, triangles[t].vb, triangles[t].vc}
              \subseteq DOMAIN vertices
    /\ last.op = "export" => last.err = "none"

\* a smooth export has redirected one of the two slots in which a triangle
\* referenced the same vertex to a copy split off that vertex
C17_Witness ==
    /\ SmoothExported
    /\ \E t \in DOMAIN triangles :
          /\ triangles[t].vb \in AddVertexIds
          /\ triangles[t].va \notin AddVertexIds
          /\ triangles[t].va # triangles[t].vb
          /\ vertices[triangles[t].va].normal # PlaceholderNormal
          /\ vertices[triangles[t].va].point = vertices[triangles[t].vb].point
          /\ vertices[triangles[t].va].color = vertices[triangles[t].vb].color
          /\ vertices[triangles[t].va].tex_coord
                = vertices[triangles[t].vb].tex_coord

\* an entry read upper indices first, then lower indices, each index with
\* the ring it belongs to
RingVertices(entry) ==
    [n \in 1..Len(entry[1]) |-> <<"upper", entry[1][n]>>]
    \o [n \in 1..Len(entry[2]) |-> <<"lower", entry[2][n]>>]

\* b lists the three different elements of a in the opposite orientation:
\* the odd permutations of three elements are the three transpositions
OppositeOrientation(a, b) ==
    /\ Len(a) = 3 /\ Len(b) = 3
    /\ Cardinality({a[1], a[2], a[3]}) = 3
    /\ \/ b = <<a[2], a[1], a[3]>>
       \/ b = <<a[1], a[3], a[2]>>
       \/ b = <<a[3], a[2], a[1]>>

(***************************************************************************)
(* C18: the ccw flag only flips the winding: for every valid (upper,       *)
(* lower, wrap_around) the results for ccw=True and ccw=False have the     *)
(* same length and at every position the two entries name the same three   *)
(* ring vertices in opposite orientation.                                  *)
(***************************************************************************)
C18_Winding ==
    \A k \in DOMAIN cache :
        (k[4] /\ <<k[1], k[2], k[3], FALSE>> \in DOMAIN cache) =>
            LET a == cache[k]
                b == cache[<<k[1], k[2], k[3], FALSE>>]
            IN  /\ Len(a) = Len(b)
                /\ \A n \in 1..Len(a) :
                      OppositeOrientation(RingVertices(a[n]), RingVertices(b[n]))

\* the cache holds the open band of 3 upper vertices on a pole for both
\* values of ccw
C18_Witness ==
    /\ DOMAIN cache = {<<3, 1, FALSE, TRUE>>, <<3, 1, FALSE, FALSE>>}
    /\ Len(cache[<<3, 1, FALSE, TRUE>>]) = 2

\* entry is a pair holding 3 indices, 1 + 2 or 2 + 1, within the two rings
EntryInRange(entry, upper, lower) ==
    /\ Len(entry) = 2
    /\ <<Len(entry[1]), Len(entry[2])>> \in {<<1, 2>>, <<2, 1>>}
    /\ \A n \in 1..Len(entry[1]) : entry[1][n] \in 0..(upper - 1)
    /\ \A n \in 1..Len(entry[2]) : entry[2][n] \in 0..(lower - 1)

\* entry holds, for one of the rings, its last index together with index 0
PairsLastWithFirst(entry, upper, lower) ==
    \/ Len(entry[1]) = 2 /\ {entry[1][1], entry[1][2]} = {0, upper - 1}
    \/ Len(entry[2]) = 2 /\ {entry[2][1], entry[2][2]} = {0, lower - 1}

\* s without the entries that pair a last index with index 0
WithoutClosing(s, upper, lower) ==
    LET Open(entry) == ~PairsLastWithFirst(entry, upper, lower)
    IN  SelectSeq(s, Open)

\* every cached result has entries in range
EntriesInRange ==
    \A k \in DOMAIN cache : \A n \in 1..Len(cache[k]) :
        EntryInRange(cache[k][n], k[1], k[2])

(***************************************************************************)
(* C19 as claimed: every entry of a connect_lines result is a pair of      *)
(* index tuples with 3 indices in total, upper indices in 0..upper-1 and   *)
(* lower indices in 0..lower-1; with wrap_around=False no entry pairs the  *)
(* last ring index with index 0, and the result is the wrap_around=True    *)
(* result without its closing entries.                                     *)
(***************************************************************************)
C19_Entries ==
    /\ EntriesInRange
    /\ \A k \in DOMAIN cache :
          ~k[3] => \A n \in 1..Len(cache[k]) :
                       ~PairsLastWithFirst(cache[k][n], k[1], k[2])
    /\ \A k \in DOMAIN cache :
          (k[3] /\ <<k[1], k[2], FALSE, k[4]>> \in DOMAIN cache) =>
              cache[<<k[1], k[2], FALSE, k[4]>>]
                  = WithoutClosing(cache[k], k[1], k[2])

\* the number of ring positions: the larger of upper and lower
RingSize(k) == IF k[1] > k[2] THEN k[1] ELSE k[2]

\* the number of entries the loop adds per ring position
PerPosition(k) == IF k[1] = 1 \/ k[2] = 1 THEN 1 ELSE 2

(***************************************************************************)
(* C19 as amended: every entry is a pair of index tuples with 3 indices in *)
(* total, within 0..upper-1 and 0..lower-1; the wrap_around=False result   *)
(* is the wrap_around=True result without the entries of the last ring     *)
(* position (its last two entries between two rings, its last entry on a   *)
(* pole); for rings of more than 2 vertices these are exactly the entries  *)
(* that pair the last ring index with index 0, so the open result holds    *)
(* none; for a ring of 2 the remaining entries join index 1 and index 0.   *)
(***************************************************************************)
C19_EntriesAmended ==
    /\ EntriesInRange
    /\ \A k \in DOMAIN cache :
          (~k[3] /\ RingSize(k) > 2) =>
              \A n \in 1..Len(cache[k]) :
                  ~PairsLastWithFirst(cache[k][n], k[1], k[2])
    /\ \A k \in DOMAIN cache :
          (~k[3] /\ RingSize(k) = 2) =>
              /\ Len(cache[k]) = PerPosition(k)
              /\ \A n \in 1..Len(cache[k]) :
                    PairsLastWithFirst(cache[k][n], k[1], k[2])
    /\ \A k \in DOMAIN cache :
          (k[3] /\ <<k[1], k[2], FALSE, k[4]>> \in DOMAIN cache) =>
              LET closed == cache[k]
                  open == cache[<<k[1], k[2], FALSE, k[4]>>]
              IN  /\ Len(open) = Len(closed) - (IF closed = <<>> THEN 0
                                                 ELSE PerPosition(k))
                  /\ open = SubSeq(closed, 1, Len(open))
                  /\ RingSize(k) > 2
                        => open = WithoutClosing(closed, k[1], k[2])

\* the cache holds the closed and the open band between two rings of 3
C19_Witness ==
    /\ DOMAIN cache = {<<3, 3, TRUE, TRUE>>, <<3, 3, FALSE, TRUE>>}
    /\ Len(cache[<<3, 3, TRUE, TRUE>>]) = 6
    /\ Len(cache[<<3, 3, FALSE, TRUE>>]) = 4

(***************************************************************************)
(* C20: smooth export is idempotent on the graph: a second                 *)
(* export(flat_shading=False, edge_angle=E) with the same E and nothing in *)
(* between creates no vertex, changes no triangle's vertex references and  *)
(* leaves every vertex's normal as it was, so with the same arguments both *)
(* calls emit the same vertex records and index triples; also with several *)
(* color/texcoord variants at a position.                                  *)
(***************************************************************************)
C20_Idempotent ==
    [][(SmoothExported /\ SmoothExported' /\ last'.args[3] = last.args[3]) =>
          /\ v_id' = v_id
          /\ triangles' = triangles
          /\ vertices' = vertices
          /\ last'.args = last.args => out' = out]_vars


(***************************************************************************)
(* What an export would return, as a function of the mesh it is called on. *)
(***************************************************************************)
\* the mesh as it is now
ThisMesh ==
    [vertices |-> vertices, triangles |-> triangles, v_id |-> v_id,
     err |-> "none"]

\* the mesh export(flat_shading=False, edge_angle=e) leaves behind when it
\* is called on the mesh m
AfterSmooth(m, e) ==
    compute_smooth_normals(points, m.vertices, m.triangles, m.v_id, e)

\* the records and index triples of a smooth export that left m behind
SmoothResult(m, normal_as_color) ==
    [rows |-> SmoothRows(<<>>, m.vertices, 0, normal_as_color),
     prims |-> SmoothPrims(m.triangles)]

\* the records and index triples of export(flat_shading=True, ...) on m
FlatResult(m, flat_color, normal_as_color) ==
    FlatFrom(NoOut, m.vertices, m.triangles, 0, flat_color, normal_as_color)

\* export(flat_shading=False, edge_angle=e) returns the same with and
\* without an export(flat_shading=False, edge_angle=before) ahead of it
SmoothHistoryFree(e, before) ==
    \E direct \in {AfterSmooth(ThisMesh, e)} :
        \E first \in {AfterSmooth(ThisMesh, before)} :
            first.err = "none" =>
                \E second \in {AfterSmooth(first, e)} :
                    /\ second.err = direct.err
                    /\ direct.err = "none" =>
                           \A nac \in BOOLEAN :
                               SmoothResult(second, nac) = SmoothResult(direct, nac)

\* export(flat_shading=True, ...) returns the same with and without an
\* export(flat_shading=False, edge_angle=before) ahead of it
FlatHistoryFree(before) ==
    \E first \in {AfterSmooth(ThisMesh, before)} :
        first.err = "none" =>
            \A fc, nac \in BOOLEAN :
                FlatResult(first, fc, nac) = FlatResult(ThisMesh, fc, nac)

(***************************************************************************)
(* C21: export results do not depend on export history: on every mesh the  *)
(* program reaches, export(flat_shading=False, edge_angle=E) returns the    *)
(* same vertex records and index triples whether or not a smooth export    *)
(* with another edge_angle (larger or smaller) ran just before it, and a    *)
(* flat-shading export returns the same whether or not a smooth export ran *)
(* before it.                                                              *)
(***************************************************************************)
C21_HistoryFree ==
    /\ \A e, before \in TetraAngles : e # before => SmoothHistoryFree(e, before)
    /\ \A before \in TetraAngles : FlatHistoryFree(before)

\* the flat-shading half of C21 alone
FlatExportHistoryFree == \A before \in TetraAngles : FlatHistoryFree(before)


\* thread t has finished a call
Finished(t) == threads[t].pc \in {"returned", "raised"}

\* what _connect_lines returns, or raises, for the argument tuple k
Uncached(k) == connect_lines_uncached(k[1], k[2], k[3], k[4])

(***************************************************************************)
(* C22: the first-insert race on the connect_lines cache is benign: with   *)
(* several threads inside connect_lines, interleaved anywhere between the  *)
(* membership test, the computation and the cache store, every finished    *)
(* call with valid arguments has returned a value equal to _connect_lines  *)
(* of its own arguments, and every cache entry equals _connect_lines of    *)
(* its key.                                                                *)
(***************************************************************************)
C22_BenignRace ==
    /\ \A t \in Threads :
          (Finished(t) /\ AcceptedLines(threads[t].k[1], threads[t].k[2])) =>
              /\ threads[t].pc = "returned"
              /\ threads[t].ret = Uncached(threads[t].k).ret
    /\ \A k \in DOMAIN cache :
          /\ Uncached(k).err = "none"
          /\ cache[k] = Uncached(k).ret

\* the race has happened: a thread has stored and returned, and another one
\* that found the same key missing is about to store over the entry while
\* a third thread is inside a call for another key
C22_Witness ==
    \E t, u, w \in Threads :
        /\ t # u
        /\ threads[t].pc = "returned"
        /\ threads[u].pc = "store"
        /\ threads[u].k = threads[t].k
        /\ threads[u].k \in DOMAIN cache
        /\ threads[w].pc = "store"
        /\ threads[w].k # threads[t].k

=============================================================================
